---- MODULE Spec2Model ----
(***************************************************************************)
(* A model of korg.py, the Python binding layer over Korg.jl.              *)
(*                                                                         *)
(* One Python process is modelled: the interpreter starts, possibly with   *)
(* juliacall already imported by other code, executes `import korg` (the   *)
(* module bodies of korg/__init__.py, korg/fit.py,                         *)
(* korg/_python_interface.py and korg/_julia_import.py, statement by       *)
(* statement, under Python's import caching), and then the client calls    *)
(* the public operations and works with the arrays they return.            *)
(***************************************************************************)
EXTENDS Integers, Sequences, FiniteSets, TLC

VARIABLES
    stack,        \* import stack: frames [mod, ip] of module bodies being executed
    sys_modules,  \* sys.modules: names of the modules imported so far
    environ,      \* os.environ restricted to the variables korg reads or writes
    environ0,     \* os.environ as it was when the process started
    warnings,     \* the warnings emitted so far, as records [kind, detail]
    status,       \* "loading", "loaded" or "failed": outcome of `import korg`
    jl_owner,     \* who imported juliacall: "none", "user" or "korg"
    jl_environ,   \* the environment juliacall saw when it initialised Julia
    korg_loaded,  \* TRUE once jl.seval("using Korg") has run
    n_init,       \* how many times the body of korg._julia_import has run `using Korg`
    early,        \* TRUE once a foreign call was issued before `using Korg` finished
    korg_docs,    \* the docstrings Korg.jl holds: what (@doc Korg.f).text[1] returns
    docs,         \* __doc__ of the Python functions, "<own>" until replaced
    load_error,   \* the exception that ended `import korg`, or "none"
    last,         \* the latest call of a public operation and what became of it
    n_linelists,  \* how many Linelist objects have been constructed
    vectors,      \* the Julia vectors handed to Python, by id
    views,        \* the numpy arrays that view a Julia vector's memory, by id
    roots,        \* the ids of the arrays the client holds a reference to
    fixed_params_default  \* the dict made once by `fixed_params: dict = {}`, shared by all calls

loadvars == <<stack, sys_modules, environ, environ0, warnings, status, jl_owner,
              jl_environ, korg_loaded, n_init, early, korg_docs, docs, load_error>>

clientvars == <<last, n_linelists, vectors, views, roots, fixed_params_default>>

vars == <<loadvars, clientvars>>

----------------------------------------------------------------------------
(* Python values and the environment *)

Unset == "<unset>"

HANDLE_SIGNALS == "PYTHON_JULIACALL_HANDLE_SIGNALS"
THREADS == "PYTHON_JULIACALL_THREADS"
OPTLEVEL == "PYTHON_JULIACALL_OPTLEVEL"
PYKORG_AUTOLOAD == "PYKORG_AUTOLOAD_EXTENSIONS"
AUTOLOAD_IPYTHON == "PYTHON_JULIACALL_AUTOLOAD_IPYTHON_EXTENSION"

EnvNames == {HANDLE_SIGNALS, THREADS, OPTLEVEL, PYKORG_AUTOLOAD, AUTOLOAD_IPYTHON}

\* os.environ.get(k, default)
EnvGet(env, k, default) == IF env[k] = Unset THEN default ELSE env[k]

\* the (variable, default) pairs of the loop in korg/_julia_import.py
JuliacallDefaults ==
    << <<HANDLE_SIGNALS, "yes">>, <<THREADS, "auto">>, <<OPTLEVEL, "3">> >>


----------------------------------------------------------------------------
(* Docstrings, as sequences of characters; a function's name is one token *)

SP == " "
NL == "NL"

DocFns == {"get_APOGEE_DR17_linelist", "get_GALAH_DR3_linelist", "get_GES_linelist",
           "get_VALD_solar_linelist", "vacuum_to_air"}

OwnDoc == <<"<own>">>

\* str.startswith
StartsWith(s, prefix) ==
    /\ Len(s) >= Len(prefix)
    /\ SubSeq(s, 1, Len(prefix)) = prefix

\* str.index(c), 1-based; 0 stands for the ValueError of a missing character
Index(s, c) ==
    IF \E i \in 1..Len(s) : s[i] = c
    THEN CHOOSE i \in 1..Len(s) : s[i] = c /\ \A j \in 1..(i - 1) : s[j] # c
    ELSE 0

\* str.lstrip(): leading whitespace removed
RECURSIVE LStrip(_)
LStrip(s) ==
    IF s # <<>> /\ Head(s) \in {SP, NL} THEN LStrip(Tail(s)) ELSE s

\* the outcome of _recycle_jl_docstring(fn) on the text Korg returned:
\* the new __doc__, or the exception raised
_recycle_jl_docstring(name, text) ==
    IF StartsWith(text, <<SP, SP, SP, SP, name, "(">>)
    THEN IF Index(text, NL) = 0
         THEN [raised |-> "ValueError", doc |-> OwnDoc]
         ELSE [raised |-> "none",
               doc |-> LStrip(SubSeq(text, Index(text, NL), Len(text)))]
    ELSE [raised |-> "RuntimeError", doc |-> OwnDoc]

\* the docstrings Korg may hold for a function
GoodDoc(name) == <<SP, SP, SP, SP, name, "(", ")", NL, NL, SP, "a", SP, "b", NL>>

DocTexts(name) ==
    { GoodDoc(name),
      <<SP, SP, SP, SP, name, "(", ")", NL>>,
      <<SP, SP, SP, SP, name, "(", ")">>,
      <<SP, SP, SP, name, "(", ")", NL, "a">>,
      <<SP, SP, SP, SP, "other", "(", ")", NL, "a">>,
      <<>> }

----------------------------------------------------------------------------
(* The module bodies executed by `import korg`, as statement lists *)

Imp(m) == [op |-> "import", arg |-> m]
Stmt(o) == [op |-> o, arg |-> ""]
Doc(f) == [op |-> "docstring", arg |-> f]

\* the process: other code may have imported juliacall; then `import korg`
MainBody == << Imp("korg") >>

\* korg/__init__.py
KorgInitBody ==
    << Imp("korg.fit"), Imp("korg._python_interface"), Imp("korg._python_interface"),
       Stmt("warn_experimental") >>

\* korg/fit.py
FitBody == << Imp("korg._python_interface"), Imp("korg._julia_import") >>

\* korg/_python_interface.py
\* the same body with `import juliacall` ahead of `from ._julia_import import ...`
PythonInterfaceBodySwapped ==
    << Imp("juliacall"), Imp("korg._julia_import"),
       Doc("get_APOGEE_DR17_linelist"), Doc("get_GALAH_DR3_linelist"),
       Doc("get_GES_linelist"), Doc("get_VALD_solar_linelist"),
       Stmt("synth_doc"), Doc("vacuum_to_air") >>

PythonInterfaceBody ==
    << Imp("korg._julia_import"), Imp("juliacall"),
       Doc("get_APOGEE_DR17_linelist"), Doc("get_GALAH_DR3_linelist"),
       Doc("get_GES_linelist"), Doc("get_VALD_solar_linelist"),
       Stmt("synth_doc"), Doc("vacuum_to_air") >>

\* korg/_julia_import.py
JuliaImportBody ==
    << Stmt("configure"), Imp("juliacall"), Stmt("jl_version"),
       Stmt("autoload"), Stmt("using_korg") >>

\* juliacall itself: importing it starts the Julia runtime
JuliacallBody == << Stmt("jl_init") >>

Body(m) ==
    CASE m = "__main__" -> MainBody
      [] m = "korg" -> KorgInitBody
      [] m = "korg.fit" -> FitBody
      [] m = "korg._python_interface" -> PythonInterfaceBody
      [] m = "korg._julia_import" -> JuliaImportBody
      [] m = "juliacall" -> JuliacallBody

Modules == {"__main__", "korg", "korg.fit", "korg._python_interface",
            "korg._julia_import", "juliacall"}

----------------------------------------------------------------------------
(* The interpreter executing the import *)

Top == stack[Len(stack)]
AtStmt == /\ status = "loading"
          /\ stack # <<>>
          /\ Top.ip <= Len(Body(Top.mod))
Cur == Body(Top.mod)[Top.ip]
Advance == [stack EXCEPT ![Len(stack)].ip = @ + 1]

\* an exception raised by a module-level statement: it leaves every module
\* body being executed, and Python drops those modules from sys.modules
Unwound == sys_modules \ {stack[i].mod : i \in 1..Len(stack)}

\* `import m`, m already in sys.modules: the module body is not executed again
\* an import system without the sys.modules cache
ImportNeverCached(m) == FALSE

ImportIsCached(m) == m \in sys_modules

ImportCached ==
    /\ AtStmt /\ Cur.op = "import" /\ ImportIsCached(Cur.arg)
    /\ stack' = Advance
    /\ UNCHANGED <<sys_modules, environ, environ0, warnings, status, jl_owner,
                   jl_environ, korg_loaded, n_init, early, korg_docs, docs, load_error>>
    /\ UNCHANGED clientvars

\* `import m`, first time: m enters sys.modules and its body starts
ImportFresh ==
    /\ AtStmt /\ Cur.op = "import" /\ ~ImportIsCached(Cur.arg)
    /\ sys_modules' = sys_modules \cup {Cur.arg}
    /\ stack' = Append(Advance, [mod |-> Cur.arg, ip |-> 1])
    /\ UNCHANGED <<environ, environ0, warnings, status, jl_owner,
                   jl_environ, korg_loaded, n_init, early, korg_docs, docs, load_error>>
    /\ UNCHANGED clientvars

\* the end of a module body; the end of the main module's is the end of the import
ModuleEnd ==
    /\ status = "loading"
    /\ stack # <<>>
    /\ Top.ip > Len(Body(Top.mod))
    /\ stack' = SubSeq(stack, 1, Len(stack) - 1)
    /\ status' = IF Len(stack) = 1 THEN "loaded" ELSE status
    /\ UNCHANGED <<sys_modules, environ, environ0, warnings, jl_owner,
                   jl_environ, korg_loaded, n_init, early, korg_docs, docs, load_error>>
    /\ UNCHANGED clientvars

Warning(kind, detail) == [kind |-> kind, detail |-> detail]

\* the loop written as os.environ[k] = default
SetDefaultsOverwrite(env) ==
    [k \in EnvNames |->
        IF \E i \in 1..Len(JuliacallDefaults) : JuliacallDefaults[i][1] = k
        THEN LET i == CHOOSE i \in 1..Len(JuliacallDefaults) : JuliacallDefaults[i][1] = k
             IN  JuliacallDefaults[i][2]
        ELSE env[k]]

\* the environment after the loop over JuliacallDefaults
SetDefaults(env) ==
    [k \in EnvNames |->
        IF \E i \in 1..Len(JuliacallDefaults) : JuliacallDefaults[i][1] = k
        THEN LET i == CHOOSE i \in 1..Len(JuliacallDefaults) : JuliacallDefaults[i][1] = k
             IN  EnvGet(env, k, JuliacallDefaults[i][2])
        ELSE env[k]]

\* korg/_julia_import.py, the if/else on "juliacall" in sys.modules
Configure ==
    /\ AtStmt /\ Cur.op = "configure"
    /\ IF "juliacall" \in sys_modules
       THEN /\ warnings' = warnings \cup
                  { Warning("juliacall_already_imported",
                            IF environ[HANDLE_SIGNALS] \notin {Unset, ""}
                            THEN environ[HANDLE_SIGNALS] ELSE "not set") }
            /\ environ' = environ
       ELSE /\ warnings' = warnings
                  \cup (IF EnvGet(environ, HANDLE_SIGNALS, "yes") # "yes"
                        THEN {Warning("handle_signals_segfault", "")} ELSE {})
                  \cup (IF EnvGet(environ, THREADS, "auto") # "auto"
                        THEN {Warning("threads_not_auto", "")} ELSE {})
            /\ environ' = SetDefaults(environ)
    /\ stack' = Advance
    /\ UNCHANGED <<sys_modules, environ0, status, jl_owner, jl_environ,
                   korg_loaded, n_init, early, korg_docs, docs, load_error>>
    /\ UNCHANGED clientvars

\* the body of juliacall: the Julia runtime starts with the environment as it is now
JlInit ==
    /\ AtStmt /\ Cur.op = "jl_init"
    /\ jl_owner' = "korg"
    /\ jl_environ' = environ
    /\ stack' = Advance
    /\ UNCHANGED <<sys_modules, environ, environ0, warnings, status,
                   korg_loaded, n_init, early, korg_docs, docs, load_error>>
    /\ UNCHANGED clientvars

\* jl_version = (jl.VERSION.major, jl.VERSION.minor, jl.VERSION.patch)
JlVersion ==
    /\ AtStmt /\ Cur.op = "jl_version"
    /\ jl_owner # "none"
    /\ stack' = Advance
    /\ UNCHANGED <<sys_modules, environ, environ0, warnings, status, jl_owner,
                   jl_environ, korg_loaded, n_init, early, korg_docs, docs, load_error>>
    /\ UNCHANGED clientvars

\* PYKORG_AUTOLOAD_EXTENSIONS is copied to PYTHON_JULIACALL_AUTOLOAD_IPYTHON_EXTENSION
Autoload ==
    /\ AtStmt /\ Cur.op = "autoload"
    /\ environ' = IF environ[PYKORG_AUTOLOAD] # Unset
                  THEN [environ EXCEPT ![AUTOLOAD_IPYTHON] = environ[PYKORG_AUTOLOAD]]
                  ELSE environ
    /\ stack' = Advance
    /\ UNCHANGED <<sys_modules, environ0, warnings, status, jl_owner,
                   jl_environ, korg_loaded, n_init, early, korg_docs, docs, load_error>>
    /\ UNCHANGED clientvars

\* jl.seval("using Korg"); Korgjl = jl.Korg
UsingKorg ==
    /\ AtStmt /\ Cur.op = "using_korg"
    /\ jl_owner # "none"
    /\ korg_loaded' = TRUE
    /\ n_init' = n_init + 1
    /\ stack' = Advance
    /\ UNCHANGED <<sys_modules, environ, environ0, warnings, status, jl_owner,
                   jl_environ, early, korg_docs, docs, load_error>>
    /\ UNCHANGED clientvars

\* @_perfect_jl_shadowing on a function: _recycle_jl_docstring(fn)
Docstring ==
    /\ AtStmt /\ Cur.op = "docstring"
    /\ early' = (early \/ ~korg_loaded)
    /\ LET r == IF korg_loaded
                THEN _recycle_jl_docstring(Cur.arg, korg_docs[Cur.arg])
                ELSE [raised |-> "NameError", doc |-> OwnDoc]
       IN  IF r.raised = "none"
           THEN /\ docs' = [docs EXCEPT ![Cur.arg] = r.doc]
                /\ stack' = Advance
                /\ UNCHANGED <<sys_modules, status, load_error>>
           ELSE /\ status' = "failed"
                /\ load_error' = r.raised
                /\ stack' = <<>>
                /\ sys_modules' = Unwound
                /\ UNCHANGED docs
    /\ UNCHANGED <<environ, environ0, warnings, jl_owner, jl_environ,
                   korg_loaded, n_init, korg_docs>>
    /\ UNCHANGED clientvars

\* synth.__doc__ = synth.__doc__.format(default_alpha_elements=...), read from Korgjl
SynthDoc ==
    /\ AtStmt /\ Cur.op = "synth_doc"
    /\ early' = (early \/ ~korg_loaded)
    /\ IF korg_loaded
       THEN /\ docs' = [docs EXCEPT !["synth"] = <<"<own>", "alpha_elements">>]
            /\ stack' = Advance
            /\ UNCHANGED <<sys_modules, status, load_error>>
       ELSE /\ status' = "failed"
            /\ load_error' = "NameError"
            /\ stack' = <<>>
            /\ sys_modules' = Unwound
            /\ UNCHANGED docs
    /\ UNCHANGED <<environ, environ0, warnings, jl_owner, jl_environ,
                   korg_loaded, n_init, korg_docs>>
    /\ UNCHANGED clientvars

\* warnings.warn("korg.py is highly experimental. ...")
WarnExperimental ==
    /\ AtStmt /\ Cur.op = "warn_experimental"
    /\ warnings' = warnings \cup {Warning("experimental", "")}
    /\ stack' = Advance
    /\ UNCHANGED <<sys_modules, environ, environ0, status, jl_owner, jl_environ,
                   korg_loaded, n_init, early, korg_docs, docs, load_error>>
    /\ UNCHANGED clientvars

NextLoad ==
    \/ ImportCached
    \/ ImportFresh
    \/ ModuleEnd
    \/ Configure
    \/ JlInit
    \/ JlVersion
    \/ Autoload
    \/ UsingKorg
    \/ Docstring
    \/ SynthDoc
    \/ WarnExperimental

----------------------------------------------------------------------------
(* Python values.  Every value is a record [t, v]: a type tag and an integer *)
(* that tells the values of one type apart.                                  *)

V(t, v) == [t |-> t, v |-> v]
None == V("None", 0)
Required == V("<required>", 0)
Float(x) == V("float", x)
Bool(b) == V("bool", b)
Inf == V("float", 999999)
Small == V("float_e-4", 1)

EmptyMap == [n \in {} |-> None]
Override(f, n, v) == [k \in DOMAIN f \cup {n} |-> IF k = n THEN v ELSE f[k]]
Merge(f, g) == [k \in DOMAIN f \cup DOMAIN g |-> IF k \in DOMAIN g THEN g[k] ELSE f[k]]

\* Python's binding of a call's keyword arguments to a signature with defaults,
\* and the arguments left over for **kwargs
Bind(signature, supplied) ==
    [n \in DOMAIN signature |-> IF n \in DOMAIN supplied THEN supplied[n] ELSE signature[n]]
Extra(signature, supplied) ==
    [n \in DOMAIN supplied \ DOMAIN signature |-> supplied[n]]

\* collections.ChainMap(a, b): a lookup finds a's entry first
ChainMap(a, b) ==
    [k \in DOMAIN a \cup DOMAIN b |-> IF k \in DOMAIN a THEN a[k] ELSE b[k]]

\* the order in which keyword names are laid out
KwOrder ==
    << "alpha_H", "linelist", "synthesize_kwargs", "format_A_X_kwargs", "C", "Fe",
       "format", "isotopic_abundances", "hydrogen_lines" >>

Kw(k, v) == [k |-> k, v |-> v]

\* **m at a call site: the entries of the mapping m as keyword arguments
KwPairs(m) ==
    LET s == SelectSeq(KwOrder, LAMBDA n : n \in DOMAIN m)
    IN  [i \in 1..Len(s) |-> Kw(s[i], m[s[i]])]

\* os.fsdecode: bytes and path objects become str
fsdecode(x) == IF x.t \in {"bytes", "PathLike"} THEN V("str", x.v) ELSE x

\* linelist._lines: the juliacall.VectorValue a Linelist wraps
Lines(linelist) == V("VectorValue", linelist.v)

_covert_wavelengths_param(wls_param) ==
    IF wls_param.t = "tuple" THEN wls_param ELSE V("jl.Vector", wls_param.v)

----------------------------------------------------------------------------
(* The public operations: signature, and the foreign call each one makes *)

SynthSignature ==
    [ Teff |-> Required, logg |-> Required, M_H |-> Float(0), alpha_H |-> None,
      linelist |-> None, wavelengths |-> V("tuple", 1), rectify |-> Bool(1),
      R |-> Inf, vsini |-> Float(0), vmic |-> Float(1),
      synthesize_kwargs |-> None, format_A_X_kwargs |-> None ]

\* synth with alpha_H passed on whatever its value, None included
SynthForwardNone(supplied) ==
    LET p == Bind(SynthSignature, supplied)
        abundances == Extra(SynthSignature, supplied)
        given == { n \in {"linelist", "synthesize_kwargs", "format_A_X_kwargs"} :
                     p[n] # None } \cup {"alpha_H"}
        partial_kwargs == [n \in given |-> IF n = "linelist" THEN Lines(p[n]) ELSE p[n]]
    IN  [ fn |-> "Korgjl.synth",
          pos |-> <<>>,
          kw |-> << Kw("Teff", p.Teff), Kw("logg", p.logg), Kw("M_H", p.M_H),
                    Kw("wavelengths", _covert_wavelengths_param(p.wavelengths)),
                    Kw("rectify", p.rectify), Kw("R", p.R), Kw("vsini", p.vsini),
                    Kw("vmic", p.vmic) >>
                 \o KwPairs(ChainMap(partial_kwargs, abundances)) ]

\* synth with alpha_H passed both by name and through the merged mapping
SynthForwardTwice(supplied) ==
    LET p == Bind(SynthSignature, supplied)
        abundances == Extra(SynthSignature, supplied)
        given == { n \in {"alpha_H", "linelist", "synthesize_kwargs", "format_A_X_kwargs"} :
                     p[n] # None }
        partial_kwargs == [n \in given |-> IF n = "linelist" THEN Lines(p[n]) ELSE p[n]]
    IN  [ fn |-> "Korgjl.synth",
          pos |-> <<>>,
          kw |-> << Kw("Teff", p.Teff), Kw("logg", p.logg), Kw("M_H", p.M_H),
                    Kw("wavelengths", _covert_wavelengths_param(p.wavelengths)),
                    Kw("rectify", p.rectify), Kw("R", p.R), Kw("vsini", p.vsini),
                    Kw("vmic", p.vmic) >>
                 \o (IF p.alpha_H # None THEN << Kw("alpha_H", p.alpha_H) >> ELSE <<>>)
                 \o KwPairs(ChainMap(partial_kwargs, abundances)) ]

\* synth with vmic left at its default whatever the caller gave
SynthForwardDefaultVmic(supplied) ==
    LET p == Bind(SynthSignature, supplied)
        abundances == Extra(SynthSignature, supplied)
        given == { n \in {"alpha_H", "linelist", "synthesize_kwargs", "format_A_X_kwargs"} :
                     p[n] # None }
        partial_kwargs == [n \in given |-> IF n = "linelist" THEN Lines(p[n]) ELSE p[n]]
    IN  [ fn |-> "Korgjl.synth",
          pos |-> <<>>,
          kw |-> << Kw("Teff", p.Teff), Kw("logg", p.logg), Kw("M_H", p.M_H),
                    Kw("wavelengths", _covert_wavelengths_param(p.wavelengths)),
                    Kw("rectify", p.rectify), Kw("R", p.R), Kw("vsini", p.vsini),
                    Kw("vmic", SynthSignature.vmic) >>
                 \o KwPairs(ChainMap(partial_kwargs, abundances)) ]

SynthForward(supplied) ==
    LET p == Bind(SynthSignature, supplied)
        abundances == Extra(SynthSignature, supplied)
        given == { n \in {"alpha_H", "linelist", "synthesize_kwargs", "format_A_X_kwargs"} :
                     p[n] # None }
        partial_kwargs == [n \in given |-> IF n = "linelist" THEN Lines(p[n]) ELSE p[n]]
    IN  [ fn |-> "Korgjl.synth",
          pos |-> <<>>,
          kw |-> << Kw("Teff", p.Teff), Kw("logg", p.logg), Kw("M_H", p.M_H),
                    Kw("wavelengths", _covert_wavelengths_param(p.wavelengths)),
                    Kw("rectify", p.rectify), Kw("R", p.R), Kw("vsini", p.vsini),
                    Kw("vmic", p.vmic) >>
                 \o KwPairs(ChainMap(partial_kwargs, abundances)) ]

ReadLinelistSignature ==
    [ fname_arg |-> Required, format |-> None, isotopic_abundances |-> None ]

ReadLinelistForward(supplied) ==
    LET p == Bind(ReadLinelistSignature, supplied)
        coerced_fname == fsdecode(p.fname_arg)
        kwargs == [n \in {m \in {"format", "isotopic_abundances"} : p[m] # None} |-> p[n]]
    IN  [ fn |-> "Korgjl.read_linelist",
          pos |-> << coerced_fname >>,
          kw |-> KwPairs(kwargs) ]

ExoMolSignature ==
    [ species |-> Required, states_file |-> Required, transitions_file |-> Required,
      lower_wavelength |-> Required, upper_wavelength |-> Required,
      isotopes |-> None, line_strength_cutoff |-> Float(-15),
      T_line_strength |-> Float(3500), verbose |-> Bool(1) ]

ExoMolForward(supplied) ==
    LET p == Bind(ExoMolSignature, supplied)
    IN  [ fn |-> "Korgjl.load_ExoMol_linelist",
          pos |-> << p.species, fsdecode(p.states_file), fsdecode(p.transitions_file),
                     p.lower_wavelength, p.upper_wavelength >>,
          kw |-> << Kw("isotopes", p.isotopes),
                    Kw("line_strength_cutoff", p.line_strength_cutoff),
                    Kw("T_line_strength", p.T_line_strength),
                    Kw("verbose", p.verbose) >> ]

BuiltinSignature(op) ==
    CASE op = "get_APOGEE_DR17_linelist" -> [include_water |-> Bool(1)]
      [] op = "get_GES_linelist" -> [include_molecules |-> Bool(1)]
      [] OTHER -> EmptyMap

BuiltinForward(op, supplied) ==
    LET p == Bind(BuiltinSignature(op), supplied)
    IN  [ fn |-> "Korgjl." \o op,
          pos |-> <<>>,
          kw |-> CASE op = "get_APOGEE_DR17_linelist" ->
                        << Kw("include_water", p.include_water) >>
                   [] op = "get_GES_linelist" ->
                        << Kw("include_molecules", p.include_molecules) >>
                   [] OTHER -> <<>> ]

\* a body that fills in the dict it was given when the caller gave none
UpdateDefault(default, supplied) ==
    IF "fixed_params" \in DOMAIN supplied THEN default ELSE supplied["initial_guesses"]

\* fit_spectrum passes fixed_params on and never writes into it: the dict
\* that is its default is after the call what it was before
KeepDefault(default, supplied) == default

\* the default of fixed_params is the one dict made when the def ran
FitSignature ==
    [ obs_wls |-> Required, obs_flux |-> Required, obs_err |-> Required,
      linelist |-> Required, initial_guesses |-> Required,
      fixed_params |-> fixed_params_default, windows |-> None, R |-> None,
      wl_buffer |-> Float(1), precision |-> Small, time_limit |-> Float(10000),
      adjust_continuum |-> Bool(0) ]

FitForward(supplied) ==
    LET p == Bind(FitSignature, supplied)
        synthesis_kwargs == Extra(FitSignature, supplied)
    IN  [ fn |-> "Korgjl.Fit.fit_spectrum",
          pos |-> << p.obs_wls, p.obs_flux, p.obs_err, Lines(p.linelist),
                     p.initial_guesses, p.fixed_params >>,
          kw |-> << Kw("windows", p.windows), Kw("R", p.R),
                    Kw("wl_buffer", p.wl_buffer), Kw("precision", p.precision),
                    Kw("time_limit", p.time_limit),
                    Kw("adjust_continuum", p.adjust_continuum) >>
                 \o KwPairs(synthesis_kwargs) ]

ConvertSignature == [ wavelengths |-> Required ]

ConvertForward(op, supplied) ==
    LET p == Bind(ConvertSignature, supplied)
    IN  [ fn |-> "jl.broadcast",
          pos |-> << V("jl.Function", IF op = "vacuum_to_air" THEN 1 ELSE 2), p.wavelengths >>,
          kw |-> <<>> ]

Signature(op) ==
    CASE op = "synth" -> SynthSignature
      [] op = "read_linelist" -> ReadLinelistSignature
      [] op = "load_ExoMol_linelist" -> ExoMolSignature
      [] op = "fit_spectrum" -> FitSignature
      [] op \in {"vacuum_to_air", "air_to_vacuum"} -> ConvertSignature
      [] OTHER -> BuiltinSignature(op)

----------------------------------------------------------------------------
(* The foreign call *)

JlErrors == {"JuliaError: ArgumentError", "JuliaError: SystemError"}
Outcomes == {"ok"} \cup JlErrors

HasDuplicate(kw) == Cardinality({kw[i].k : i \in 1..Len(kw)}) # Len(kw)

\* Python evaluates Korgjl.f(*pos, **kw): a keyword given twice is a TypeError
\* and nothing is called; otherwise the foreign function is called, once, and
\* what it raises is what the calling function raises
\* a call site that catches the foreign failure and carries on
InvokeSwallow(fwd, outcome) ==
    IF HasDuplicate(fwd.kw)
    THEN [ncalls |-> 0, jl |-> "not_called", raised |-> "TypeError"]
    ELSE [ncalls |-> 1, jl |-> outcome, raised |-> "none"]

\* a call site that tries a failed foreign call a second time
InvokeRetry(fwd, outcome) ==
    IF HasDuplicate(fwd.kw)
    THEN [ncalls |-> 0, jl |-> "not_called", raised |-> "TypeError"]
    ELSE [ncalls |-> IF outcome = "ok" THEN 1 ELSE 2, jl |-> outcome,
          raised |-> IF outcome = "ok" THEN "none" ELSE outcome]

Invoke(fwd, outcome) ==
    IF HasDuplicate(fwd.kw)
    THEN [ncalls |-> 0, jl |-> "not_called", raised |-> "TypeError"]
    ELSE [ncalls |-> 1, jl |-> outcome,
          raised |-> IF outcome = "ok" THEN "none" ELSE outcome]

NoCall ==
    [ op |-> "none", supplied |-> EmptyMap, fn |-> "", pos |-> <<>>, kw |-> <<>>,
      ncalls |-> 0, jl |-> "not_called", raised |-> "none", ret |-> <<>>,
      wrapped |-> 0, built |-> 0 ]

\* the record of one call: what the caller passed, what was forwarded, what
\* came back, and how many arrays and Linelists the call made
Called(op, supplied, fwd, inv, ret) ==
    [ op |-> op, supplied |-> supplied, fn |-> fwd.fn, pos |-> fwd.pos, kw |-> fwd.kw,
      ncalls |-> inv.ncalls, jl |-> inv.jl, raised |-> inv.raised, ret |-> ret,
      wrapped |-> Len(views') - Len(views), built |-> n_linelists' - n_linelists ]

\* a Linelist argument is a Linelist object that exists
ArgsExist(supplied) ==
    \A n \in DOMAIN supplied : supplied[n].t = "Linelist" => supplied[n].v <= n_linelists

----------------------------------------------------------------------------
(* Julia vectors and the numpy arrays over them *)

MaxVectors == 3
MaxSlices == 1
MaxLen == 2
MaxLinelists == 1

\* a vector as Julia returns it: alive, with a live Python handle (the
\* juliacall.VectorValue), its contents and storage as Julia made them
NewVector(n) ==
    [ alive |-> TRUE, handle |-> TRUE, len |-> n, written |-> FALSE, relocated |-> FALSE ]

\* an array that copies nothing and keeps no reference to the vector it views
WrapNoBase(vecs, i) ==
    [ vec |-> i, base |-> V("none", 0), len |-> vecs[i].len, live |-> TRUE,
      writeable |-> TRUE ]

\* np.array(vec, copy=False): an array over the vector's memory whose base keeps
\* the handle
Wrap(vecs, i) ==
    [ vec |-> i, base |-> V("handle", i), len |-> vecs[i].len, live |-> TRUE,
      writeable |-> TRUE ]

\* a return statement with flux ahead of the wavelengths
SynthReturnSwapped(w, f, c) == << V("ndarray", f), V("ndarray", w), V("ndarray", c) >>

\* the tuple synth returns, given the ids of the views over tmp_wls, tmp_flux
\* and tmp_continuum
SynthReturn(w, f, c) == << V("ndarray", w), V("ndarray", f), V("ndarray", c) >>

clientframe == <<stack, sys_modules, environ, environ0, warnings, status, jl_owner,
                 jl_environ, korg_loaded, n_init, korg_docs, docs, load_error>>

Synth(supplied, outcome, lens) ==
    /\ status = "loaded"
    /\ ArgsExist(supplied)
    /\ UNCHANGED <<clientframe, fixed_params_default, n_linelists>>
    /\ LET fwd == SynthForward(supplied)
           inv == Invoke(fwd, outcome)
           nv == Len(vectors)
           nw == Len(views)
       IN  /\ early' = (early \/ (inv.ncalls > 0 /\ ~korg_loaded))
           /\ IF inv.raised = "none"
              THEN /\ nv + 3 <= MaxVectors
                   /\ vectors' = vectors \o << NewVector(lens[1]), NewVector(lens[2]),
                                               NewVector(lens[3]) >>
                   /\ views' = views \o << Wrap(vectors', nv + 1), Wrap(vectors', nv + 2),
                                           Wrap(vectors', nv + 3) >>
                   /\ roots' = roots \cup {nw + 1, nw + 2, nw + 3}
                   /\ last' = Called("synth", supplied, fwd, inv,
                                     SynthReturn(nw + 1, nw + 2, nw + 3))
              ELSE /\ UNCHANGED <<vectors, views, roots>>
                   /\ last' = Called("synth", supplied, fwd, inv, <<>>)

\* the operations that return Linelist(<foreign call>)
LinelistCall(op, supplied, fwd, outcome) ==
    /\ status = "loaded"
    /\ ArgsExist(supplied)
    /\ UNCHANGED <<clientframe, fixed_params_default, vectors, views, roots>>
    /\ LET inv == Invoke(fwd, outcome)
       IN  /\ early' = (early \/ (inv.ncalls > 0 /\ ~korg_loaded))
           /\ IF inv.raised = "none"
              THEN /\ n_linelists < MaxLinelists
                   /\ n_linelists' = n_linelists + 1
                   /\ last' = Called(op, supplied, fwd, inv,
                                     << V("Linelist", n_linelists + 1) >>)
              ELSE /\ UNCHANGED n_linelists
                   /\ last' = Called(op, supplied, fwd, inv, <<>>)

ReadLinelist(supplied, outcome) ==
    LinelistCall("read_linelist", supplied, ReadLinelistForward(supplied), outcome)

LoadExoMolLinelist(supplied, outcome) ==
    LinelistCall("load_ExoMol_linelist", supplied, ExoMolForward(supplied), outcome)

GetLinelist(op, supplied, outcome) ==
    LinelistCall(op, supplied, BuiltinForward(op, supplied), outcome)

\* FitResult(result.best_fit_params, result.obs_wl_mask, result.covariance, result.trace)
FitSpectrum(supplied, outcome) ==
    /\ status = "loaded"
    /\ ArgsExist(supplied)
    /\ UNCHANGED <<clientframe, n_linelists, vectors, views, roots>>
    /\ LET fwd == FitForward(supplied)
           inv == Invoke(fwd, outcome)
       IN  /\ early' = (early \/ (inv.ncalls > 0 /\ ~korg_loaded))
           /\ fixed_params_default' = KeepDefault(fixed_params_default, supplied)
           /\ last' = Called("fit_spectrum", supplied, fwd, inv,
                             IF inv.raised = "none" THEN << V("FitResult", 0) >> ELSE <<>>)

\* a broadcast that collects its result into a vector whatever the input
BroadcastCollect(wavelengths) ==
    IF wavelengths.t = "array"
    THEN V("VectorValue", wavelengths.v)
    ELSE V("VectorValue", 1)

\* vacuum_to_air and air_to_vacuum: by Julia's broadcasting a scalar gives a
\* scalar and an array of n wavelengths a vector of n
Broadcast(wavelengths) ==
    IF wavelengths.t = "array"
    THEN V("VectorValue", wavelengths.v)
    ELSE Float(wavelengths.v + 1)

\* isinstance(wls, juliacall.VectorValue)
IsVectorValue(wls) == wls.t = "VectorValue"

Convert(op, supplied, outcome) ==
    /\ status = "loaded"
    /\ UNCHANGED <<clientframe, fixed_params_default, n_linelists>>
    /\ LET fwd == ConvertForward(op, supplied)
           inv == Invoke(fwd, outcome)
           wls == Broadcast(fwd.pos[2])
           nv == Len(vectors)
           nw == Len(views)
       IN  /\ early' = (early \/ (inv.ncalls > 0 /\ ~korg_loaded))
           /\ IF inv.raised = "none" /\ IsVectorValue(wls)
              THEN /\ nv + 1 <= MaxVectors
                   /\ vectors' = Append(vectors, NewVector(wls.v))
                   /\ views' = Append(views, Wrap(vectors', nv + 1))
                   /\ roots' = roots \cup {nw + 1}
                   /\ last' = Called(op, supplied, fwd, inv, << V("ndarray", nw + 1) >>)
              ELSE /\ UNCHANGED <<vectors, views, roots>>
                   /\ last' = Called(op, supplied, fwd, inv,
                                     IF inv.raised = "none" THEN << wls >> ELSE <<>>)

VacuumToAir(supplied, outcome) == Convert("vacuum_to_air", supplied, outcome)
AirToVacuum(supplied, outcome) == Convert("air_to_vacuum", supplied, outcome)

----------------------------------------------------------------------------
(* What the client does with the arrays it holds, and garbage collection *)

\* arr[1:]: a new array over the same memory, whose base is the array sliced
Slice(v) ==
    /\ status = "loaded"
    /\ v \in roots
    /\ views[v].len >= 1
    /\ Cardinality({w \in 1..Len(views) : views[w].base.t = "view"}) < MaxSlices
    /\ views' = Append(views, [ vec |-> views[v].vec, base |-> V("view", v),
                                len |-> views[v].len - 1, live |-> TRUE,
                                writeable |-> views[v].writeable ])
    /\ roots' = roots \cup {Len(views) + 1}
    /\ UNCHANGED <<loadvars, fixed_params_default, last, n_linelists, vectors>>

\* del arr: the client's reference to an array goes away
DropView(v) ==
    /\ status = "loaded"
    /\ v \in roots
    /\ roots' = roots \ {v}
    /\ UNCHANGED <<loadvars, fixed_params_default, last, n_linelists, vectors, views>>

\* Python frees an array nothing refers to
CollectView(v) ==
    /\ v \in 1..Len(views)
    /\ views[v].live
    /\ v \notin roots
    /\ ~\E w \in 1..Len(views) : views[w].live /\ views[w].base = V("view", v)
    /\ views' = [views EXCEPT ![v].live = FALSE]
    /\ UNCHANGED <<loadvars, fixed_params_default, last, n_linelists, vectors, roots>>

\* Python frees a juliacall.VectorValue nothing refers to
CollectHandle(i) ==
    /\ i \in 1..Len(vectors)
    /\ vectors[i].handle
    /\ ~\E w \in 1..Len(views) : views[w].live /\ views[w].base = V("handle", i)
    /\ vectors' = [vectors EXCEPT ![i].handle = FALSE]
    /\ UNCHANGED <<loadvars, fixed_params_default, last, n_linelists, views, roots>>

\* Julia deallocates a vector whose Python handle is gone
JlFree(i) ==
    /\ i \in 1..Len(vectors)
    /\ vectors[i].alive
    /\ ~vectors[i].handle
    /\ vectors' = [vectors EXCEPT ![i].alive = FALSE]
    /\ UNCHANGED <<loadvars, fixed_params_default, last, n_linelists, views, roots>>

\* arr[0] = x: numpy writes into the memory the array views
WriteView(v) ==
    /\ status = "loaded"
    /\ v \in roots
    /\ views[v].writeable
    /\ views[v].len >= 1
    /\ ~vectors[views[v].vec].written
    /\ vectors' = [vectors EXCEPT ![views[v].vec].written = TRUE]
    /\ UNCHANGED <<loadvars, fixed_params_default, last, n_linelists, views, roots>>

\* arr.base.obj.append(x): the juliacall.VectorValue behind the array is a
\* mutable vector; growing it makes Julia reallocate its storage
AppendViaBase(v) ==
    /\ status = "loaded"
    /\ v \in roots
    /\ views[v].base.t = "handle"
    /\ LET i == views[v].base.v
       IN  /\ vectors[i].handle /\ vectors[i].alive
           /\ ~vectors[i].relocated
           /\ vectors' = [vectors EXCEPT ![i].relocated = TRUE, ![i].len = @ + 1]
    /\ UNCHANGED <<loadvars, fixed_params_default, last, n_linelists, views, roots>>

----------------------------------------------------------------------------
(* The calls a client makes: a baseline call of each operation, the baseline *)
(* with one argument changed or added, and a call with every argument given  *)

Variations(base, doms, full) ==
    {base} \cup {full}
           \cup UNION { {Override(base, n, v) : v \in doms[n]} : n \in DOMAIN doms }

Linelists == {V("Linelist", i) : i \in 1..MaxLinelists}

SynthBase == [Teff |-> Float(5777), logg |-> Float(4)]

SynthDoms ==
    [ Teff |-> {Float(-1)}, logg |-> {Float(3)}, M_H |-> {Float(0), Float(-1)},
      alpha_H |-> {None, Float(1)}, linelist |-> {None} \cup Linelists,
      wavelengths |-> {V("tuple", 1), V("tuple", 2), V("list", 3)},
      rectify |-> {Bool(1), Bool(0)}, R |-> {Inf, Float(10000)},
      vsini |-> {Float(0), Float(10)}, vmic |-> {Float(1), Float(2)},
      synthesize_kwargs |-> {None, V("dict", 1)},
      format_A_X_kwargs |-> {None, V("dict", 2)},
      C |-> {Float(2)}, Fe |-> {Float(-2)} ]

SynthFull ==
    [ Teff |-> Float(5000), logg |-> Float(3), M_H |-> Float(-1), alpha_H |-> Float(1),
      linelist |-> V("Linelist", 1), wavelengths |-> V("list", 3), rectify |-> Bool(0),
      R |-> Float(10000), vsini |-> Float(10), vmic |-> Float(2),
      synthesize_kwargs |-> V("dict", 1), format_A_X_kwargs |-> V("dict", 2),
      C |-> Float(2), Fe |-> Float(-2) ]

SynthCalls == Variations(SynthBase, SynthDoms, SynthFull)

ReadLinelistBase == [fname_arg |-> V("str", 1)]

ReadLinelistCalls ==
    Variations(ReadLinelistBase,
               [ fname_arg |-> {V("bytes", 1), V("PathLike", 2)},
                 format |-> {None, V("str", 7)},
                 isotopic_abundances |-> {None, V("dict", 3)} ],
               [ fname_arg |-> V("PathLike", 2), format |-> V("str", 7),
                 isotopic_abundances |-> V("dict", 3) ])

ExoMolBase ==
    [ species |-> V("str", 2), states_file |-> V("str", 3),
      transitions_file |-> V("str", 4), lower_wavelength |-> Float(6800),
      upper_wavelength |-> Float(6810) ]

ExoMolCalls ==
    Variations(ExoMolBase,
               [ states_file |-> {V("PathLike", 3)}, transitions_file |-> {V("bytes", 4)},
                 isotopes |-> {None, V("list", 5)},
                 line_strength_cutoff |-> {Float(-15), Float(-100)},
                 T_line_strength |-> {Float(3500), Float(5000)},
                 verbose |-> {Bool(1), Bool(0)} ],
               Merge(ExoMolBase,
                     [ isotopes |-> V("list", 5), line_strength_cutoff |-> Float(-100),
                       T_line_strength |-> Float(5000), verbose |-> Bool(0) ]))

BuiltinOps == {"get_APOGEE_DR17_linelist", "get_GALAH_DR3_linelist",
               "get_GES_linelist", "get_VALD_solar_linelist"}

BuiltinCalls(op) ==
    {EmptyMap} \cup
    UNION { {Override(EmptyMap, n, Bool(1)), Override(EmptyMap, n, Bool(0))} :
              n \in DOMAIN BuiltinSignature(op) }

FitBase ==
    [ obs_wls |-> V("array", 3), obs_flux |-> V("array", 3), obs_err |-> V("array", 3),
      linelist |-> V("Linelist", 1), initial_guesses |-> V("dict", 5) ]

FitCalls ==
    Variations(FitBase,
               [ linelist |-> Linelists,
                 fixed_params |-> {V("dict", 0), V("dict", 6)},
                 windows |-> {None, V("list", 7)}, R |-> {None, Float(100000)},
                 wl_buffer |-> {Float(1), Float(2)}, precision |-> {Small, V("float_e-4", 10)},
                 time_limit |-> {Float(10000), Float(1)},
                 adjust_continuum |-> {Bool(0), Bool(1)},
                 hydrogen_lines |-> {Bool(0)} ],
               Merge(FitBase,
                     [ fixed_params |-> V("dict", 6), windows |-> V("list", 7),
                       R |-> Float(100000), wl_buffer |-> Float(2),
                       precision |-> V("float_e-4", 10), time_limit |-> Float(1),
                       adjust_continuum |-> Bool(1), hydrogen_lines |-> Bool(0) ]))

ConvertCalls == { [wavelengths |-> w] : w \in {Float(1000), V("array", MaxLen)} }

CallSynth ==
    \E s \in SynthCalls, o \in Outcomes : Synth(s, o, <<MaxLen, MaxLen, MaxLen>>)
CallReadLinelist ==
    \E s \in ReadLinelistCalls, o \in Outcomes : ReadLinelist(s, o)
CallLoadExoMolLinelist ==
    \E s \in ExoMolCalls, o \in Outcomes : LoadExoMolLinelist(s, o)
CallGetLinelist ==
    \E op \in BuiltinOps : \E s \in BuiltinCalls(op), o \in Outcomes : GetLinelist(op, s, o)
CallFitSpectrum ==
    \E s \in FitCalls, o \in Outcomes : FitSpectrum(s, o)
CallVacuumToAir ==
    \E s \in ConvertCalls, o \in Outcomes : VacuumToAir(s, o)
CallAirToVacuum ==
    \E s \in ConvertCalls, o \in Outcomes : AirToVacuum(s, o)

NextCall ==
    \/ CallSynth
    \/ CallReadLinelist
    \/ CallLoadExoMolLinelist
    \/ CallGetLinelist
    \/ CallFitSpectrum
    \/ CallVacuumToAir
    \/ CallAirToVacuum

\* the arrays: the array-returning calls with baseline arguments, and what a
\* client can do with an array
ArraySynth ==
    \E o \in Outcomes : Synth(SynthBase, o, <<MaxLen, MaxLen, MaxLen>>)
ArrayVacuumToAir ==
    \E s \in ConvertCalls, o \in Outcomes : VacuumToAir(s, o)
ArrayAirToVacuum ==
    \E s \in ConvertCalls, o \in Outcomes : AirToVacuum(s, o)
ClientSlice == \E v \in roots : Slice(v)
ClientDrop == \E v \in roots : DropView(v)
ClientWrite == \E v \in roots : WriteView(v)
ClientAppend == \E v \in roots : AppendViaBase(v)
GcView == \E v \in 1..Len(views) : CollectView(v)
GcHandle == \E i \in 1..Len(vectors) : CollectHandle(i)
GcJulia == \E i \in 1..Len(vectors) : JlFree(i)

NextArrayCall ==
    \/ ArraySynth
    \/ ArrayVacuumToAir
    \/ ArrayAirToVacuum

\* the lifetime of the arrays: slices, dropped references, garbage collection
NextLifetime ==
    \/ ClientSlice
    \/ ClientDrop
    \/ GcView
    \/ GcHandle
    \/ GcJulia

\* writes through the arrays
NextMutate ==
    \/ ClientWrite
    \/ ClientAppend

----------------------------------------------------------------------------
(* Initial states *)

EnvChoices ==
    { [k \in EnvNames |->
         CASE k = HANDLE_SIGNALS -> hs
           [] k = THREADS -> th
           [] k = OPTLEVEL -> ol
           [] k = PYKORG_AUTOLOAD -> pa
           [] k = AUTOLOAD_IPYTHON -> ai] :
        hs \in {Unset, "yes", "", "no"}, th \in {Unset, "auto", "4"},
        ol \in {Unset, "0"}, pa \in {Unset, "yes"}, ai \in {Unset, "no"} }

NoEnv == [k \in EnvNames |-> Unset]

\* the docstrings of Korg.jl: as shipped, or with one function's text different
GoodDocs == [f \in DocFns |-> GoodDoc(f)]

DocWorlds ==
    {GoodDocs} \cup UNION { {[GoodDocs EXCEPT ![f] = t] : t \in DocTexts(f)} : f \in DocFns }

InitProcess(env, preloaded, kdocs) ==
    /\ stack = << [mod |-> "__main__", ip |-> 1] >>
    /\ sys_modules = IF preloaded THEN {"__main__", "juliacall"} ELSE {"__main__"}
    /\ environ = env
    /\ environ0 = env
    /\ warnings = {}
    /\ status = "loading"
    /\ jl_owner = IF preloaded THEN "user" ELSE "none"
    /\ jl_environ = IF preloaded THEN env ELSE NoEnv
    /\ korg_loaded = FALSE
    /\ n_init = 0
    /\ early = FALSE
    /\ korg_docs = kdocs
    /\ docs = [f \in DocFns \cup {"synth"} |-> OwnDoc]
    /\ load_error = "none"
    /\ last = NoCall
    /\ n_linelists = 0
    /\ vectors = <<>>
    /\ views = <<>>
    /\ roots = {}
    /\ fixed_params_default = V("dict", 0)

InitLoad ==
    \E env \in EnvChoices, preloaded \in BOOLEAN, kdocs \in DocWorlds :
        InitProcess(env, preloaded, kdocs)

\* the process as shipped: Korg's docstrings well-formed, nothing set in the
\* environment, juliacall imported beforehand or not
Init == \E preloaded \in BOOLEAN : InitProcess(NoEnv, preloaded, GoodDocs)

Next == NextLoad \/ NextCall

Spec == Init /\ [][Next]_vars

\* loading only, over every environment and every docstring
SpecLoad == InitLoad /\ [][NextLoad]_vars

InitArrays == InitProcess(NoEnv, FALSE, GoodDocs)

\* the array-returning calls, succeeding
ReturnSynth == Synth(SynthBase, "ok", <<MaxLen, MaxLen, MaxLen>>)
ReturnVacuumToAir == VacuumToAir([wavelengths |-> V("array", MaxLen)], "ok")
ReturnAirToVacuum == AirToVacuum([wavelengths |-> V("array", MaxLen)], "ok")

\* loading, then arrays that are sliced, dropped and collected
NextHeap ==
    \/ NextLoad
    \/ ReturnSynth
    \/ ReturnVacuumToAir
    \/ ReturnAirToVacuum
    \/ NextLifetime

SpecHeap == InitArrays /\ [][NextHeap]_vars

\* loading, then arrays that are written through
NextWrite == NextLoad \/ NextArrayCall \/ NextMutate

SpecMutate == InitArrays /\ [][NextWrite]_vars

\* the inputs of the two conversions: scalars, and arrays of every length
ConvertInputs == {Float(1000), Float(2000)} \cup {V("array", n) : n \in 0..MaxLen}

ShapeVacuumToAir ==
    \E w \in ConvertInputs, o \in Outcomes : VacuumToAir([wavelengths |-> w], o)
ShapeAirToVacuum ==
    \E w \in ConvertInputs, o \in Outcomes : AirToVacuum([wavelengths |-> w], o)

\* loading, then the two conversions over every input
NextShape == NextLoad \/ ShapeVacuumToAir \/ ShapeAirToVacuum

SpecShape == InitArrays /\ [][NextShape]_vars

\* the lengths of the three vectors Korgjl.synth hands back: equal, as Korg
\* makes them, and all different
SynthLens == { <<MaxLen, MaxLen, MaxLen>>, <<1, 1, 1>>, <<0, 1, MaxLen>> }

TripleSynth ==
    \E s \in SynthCalls, o \in Outcomes, lens \in SynthLens : Synth(s, o, lens)

\* loading, then synth over vectors of every choice of lengths
NextTriple == NextLoad \/ TripleSynth

SpecTriple == InitArrays /\ [][NextTriple]_vars

----------------------------------------------------------------------------
(* Properties                                                                *)

Live == {v \in 1..Len(views) : views[v].live}

\* C1: while an array made by korg.py (or an array derived from one) exists,
\* the Julia vector it views has not been deallocated and its
\* juliacall.VectorValue has not been collected.  Checked under SpecHeap.
C1_ViewKeepsBufferAlive ==
    \A v \in Live : vectors[views[v].vec].alive /\ vectors[views[v].vec].handle

\* a slice of an array synth returned is all the client still holds of that
\* vector, the garbage collector has already freed another vector, and the
\* slice's vector is still there
C1_SliceOutlivesArray ==
    /\ last.op = "synth"
    /\ \E w \in roots :
          /\ views[w].base.t = "view"
          /\ views[w].base.v \notin roots
          /\ \A u \in roots : views[u].vec = views[w].vec => u = w
          /\ vectors[views[w].vec].alive
    /\ \E i \in 1..Len(vectors) : ~vectors[i].alive

\* C2: an array korg.py returned is read-only: nothing the client can do with
\* it changes the contents or the length of the Julia vector it views.
\* Checked under SpecMutate.
C2_ViewsReadOnly ==
    \A v \in Live : ~vectors[views[v].vec].written /\ ~vectors[views[v].vec].relocated

\* the keyword arguments of the last foreign call
Forwarded == {last.kw[i].k : i \in 1..Len(last.kw)}
KwVal(n) == last.kw[CHOOSE i \in 1..Len(last.kw) : last.kw[i].k = n].v
Optional(op) == {n \in DOMAIN Signature(op) : Signature(op)[n] # Required}
Given == DOMAIN last.supplied

SentinelOps == {"synth", "read_linelist", "load_ExoMol_linelist", "fit_spectrum"}

\* the parameters whose None is tested before the foreign call
NoneTested(op) ==
    CASE op = "synth" -> {"alpha_H", "linelist", "synthesize_kwargs", "format_A_X_kwargs"}
      [] op = "read_linelist" -> {"format", "isotopic_abundances"}
      [] OTHER -> {}

\* C3 as stated: for synth, read_linelist, load_ExoMol_linelist and
\* fit_spectrum, an optional parameter is among the forwarded keyword
\* arguments exactly when the caller supplied it.
C3_ForwardedIffSupplied ==
    last.op \in SentinelOps =>
        \A n \in Optional(last.op) : n \in Forwarded <=> n \in Given

\* C3: for synth, read_linelist, load_ExoMol_linelist and fit_spectrum, an
\* optional parameter whose None is tested (synth: alpha_H, linelist,
\* synthesize_kwargs, format_A_X_kwargs; read_linelist: format,
\* isotopic_abundances) is forwarded exactly when the caller supplied a value
\* other than None; fit_spectrum passes fixed_params by position; every other
\* optional parameter is forwarded on every call, with the Python default when
\* the caller left it out.
C3_SentinelOmission ==
    last.op \in SentinelOps =>
        \A n \in Optional(last.op) :
            IF n \in NoneTested(last.op)
            THEN n \in Forwarded <=> (n \in Given /\ last.supplied[n] # None)
            ELSE IF last.op = "fit_spectrum" /\ n = "fixed_params"
            THEN /\ n \notin Forwarded
                 /\ n \notin Given => last.pos[6] = Signature(last.op)[n]
            ELSE /\ n \in Forwarded
                 /\ n \notin Given => KwVal(n) = Signature(last.op)[n]

\* synth called with alpha_H given and linelist left out: alpha_H is forwarded,
\* linelist is not, and M_H, which the caller left out too, is
C3_GivenAndOmitted ==
    /\ last.op = "synth"
    /\ "alpha_H" \in Given /\ last.supplied["alpha_H"] # None
    /\ "alpha_H" \in Forwarded
    /\ "linelist" \notin Given /\ "linelist" \notin Forwarded
    /\ "M_H" \notin Given /\ "M_H" \in Forwarded

\* C4: synth hands Korg its recognised optional arguments and the free-form
\* abundance entries in one call, no keyword name appears twice, every
\* free-form entry is there with its value, and a recognised name carries the
\* value of the recognised parameter.  Checked under Spec.
C4_MergedOnceNoDuplicate ==
    last.op = "synth" =>
        /\ last.raised # "TypeError"
        /\ \A i, j \in 1..Len(last.kw) : last.kw[i].k = last.kw[j].k => i = j
        /\ \A n \in Given \ DOMAIN SynthSignature :
              n \in Forwarded /\ KwVal(n) = last.supplied[n]
        /\ \A n \in NoneTested("synth") \cap Forwarded :
              /\ n \in Given
              /\ KwVal(n) = IF n = "linelist" THEN V("VectorValue", last.supplied[n].v)
                            ELSE last.supplied[n]

\* synth called with alpha_H, a linelist and the abundances C and Fe: all four
\* reach Korg in the one call
C4_RecognisedAndFreeForm ==
    /\ last.op = "synth"
    /\ last.ncalls = 1
    /\ {"alpha_H", "linelist", "C", "Fe"} \subseteq Given
    /\ {"alpha_H", "linelist", "C", "Fe"} \subseteq Forwarded

\* C5 as stated: every argument the caller gave synth reaches Korg under the
\* same name and with the same value (a Linelist as the VectorValue it wraps),
\* whichever arguments are given together.
C5_ForwardedAsGiven ==
    last.op = "synth" =>
        \A n \in Given :
            /\ n \in Forwarded
            /\ KwVal(n) = IF n = "linelist" THEN V("VectorValue", last.supplied[n].v)
                          ELSE last.supplied[n]

\* C5: every argument the caller gave synth reaches Korg under the same name,
\* whichever arguments are given together, except that an alpha_H, linelist,
\* synthesize_kwargs or format_A_X_kwargs given as None is left out; the value
\* is the one given, except that a Linelist arrives as the VectorValue it wraps
\* and wavelengths that are not a tuple arrive converted to a Julia Vector of
\* the same elements.
C5_ForwardingFidelity ==
    last.op = "synth" =>
        \A n \in Given :
            IF n \in NoneTested("synth") /\ last.supplied[n] = None
            THEN n \notin Forwarded
            ELSE /\ n \in Forwarded
                 /\ KwVal(n) =
                      IF n = "linelist" THEN V("VectorValue", last.supplied[n].v)
                      ELSE IF n = "wavelengths" /\ last.supplied[n].t # "tuple"
                      THEN V("jl.Vector", last.supplied[n].v)
                      ELSE last.supplied[n]

\* synth called with every parameter and two abundances at once, wavelengths a
\* list, and the call went through
C5_EverythingGiven ==
    /\ last.op = "synth"
    /\ last.jl = "ok"
    /\ Given = DOMAIN SynthSignature \cup {"C", "Fe"}
    /\ last.supplied["wavelengths"].t = "list"
    /\ last.supplied["vmic"] # SynthSignature.vmic

\* C6: when the Korg call behind any operation fails, the caller gets that
\* same failure: it is not swallowed and not replaced, no result is returned,
\* and no array or Linelist is made from a partial result.  Checked under Spec.
C6_FailurePropagatesUnchanged ==
    (last.op # "none" /\ last.jl \in JlErrors) =>
        /\ last.raised = last.jl
        /\ last.ret = <<>>
        /\ last.wrapped = 0
        /\ last.built = 0

\* read_linelist was called after one Linelist had been made, and Korg raised
C6_ReadLinelistFailed ==
    /\ last.op = "read_linelist"
    /\ last.jl \in JlErrors
    /\ n_linelists = 1

\* C7: one call of an operation makes its Korg call exactly once, whether the
\* call succeeds or fails; a failed call is not tried again.  Checked under
\* Spec.
C7_ExactlyOneForeignCall ==
    last.op # "none" => last.ncalls = 1

\* fit_spectrum was called, Korg raised, and Korg had been called once
C7_FitFailedOnce ==
    /\ last.op = "fit_spectrum"
    /\ last.jl \in JlErrors
    /\ last.raised \in JlErrors
    /\ last.ncalls = 1

\* C8: `using Korg` runs at most once in a process, however many modules
\* import korg._julia_import, and no Korg call (the docstring lookups at import
\* time included) is made before it has run.  Checked under Spec.
C8_InitOnceBeforeCalls ==
    /\ n_init <= 1
    /\ ~early
    /\ (last.op # "none" \/ \E f \in DocFns : docs[f] # OwnDoc) =>
          (korg_loaded /\ n_init = 1 /\ jl_owner # "none")

\* korg is imported, every module that imports korg._julia_import has done so,
\* the docstrings were fetched and an operation has called Korg
C8_LoadedAndCalled ==
    /\ status = "loaded"
    /\ {"korg.fit", "korg._python_interface", "korg._julia_import"} \subseteq sys_modules
    /\ n_init = 1
    /\ docs["vacuum_to_air"] # OwnDoc
    /\ last.ncalls = 1

\* C9: when korg, not its user, imports juliacall, the Julia runtime starts
\* with PYTHON_JULIACALL_HANDLE_SIGNALS, PYTHON_JULIACALL_THREADS and
\* PYTHON_JULIACALL_OPTLEVEL all set: the value the process already had where
\* it had one, and "yes", "auto" and "3" where it had none.  Checked under
\* SpecLoad.
C9_SwitchesSetBeforeJuliacall ==
    jl_owner = "korg" =>
        /\ jl_environ[HANDLE_SIGNALS] =
              (IF environ0[HANDLE_SIGNALS] # Unset THEN environ0[HANDLE_SIGNALS] ELSE "yes")
        /\ jl_environ[THREADS] =
              (IF environ0[THREADS] # Unset THEN environ0[THREADS] ELSE "auto")
        /\ jl_environ[OPTLEVEL] =
              (IF environ0[OPTLEVEL] # Unset THEN environ0[OPTLEVEL] ELSE "3")

\* korg started Julia in a process that had HANDLE_SIGNALS set to "no" and
\* the other two unset
C9_OneKeptTwoDefaulted ==
    /\ jl_owner = "korg"
    /\ environ0[HANDLE_SIGNALS] = "no"
    /\ environ0[THREADS] = Unset
    /\ environ0[OPTLEVEL] = Unset
    /\ jl_environ[THREADS] = "auto"

AlreadyImportedWarned == \E w \in warnings : w.kind = "juliacall_already_imported"

\* C10: the "juliacall already imported" warning is given exactly when the
\* user imported juliacall before korg; korg then leaves the three switches as
\* they were; and korg's own order of imports never produces the warning.
\* Checked under SpecLoad.
C10_WarnedIffPreImported ==
    /\ AlreadyImportedWarned => jl_owner = "user"
    /\ (jl_owner = "user" /\ "korg._julia_import" \in sys_modules /\ korg_loaded)
          => AlreadyImportedWarned
    /\ jl_owner = "user" =>
          \A k \in {HANDLE_SIGNALS, THREADS, OPTLEVEL} : environ[k] = environ0[k]

\* the user imported juliacall first with nothing set; korg is now imported,
\* has warned, and the switches are still unset
C10_PreImportedAndWarned ==
    /\ jl_owner = "user"
    /\ status = "loaded"
    /\ AlreadyImportedWarned
    /\ environ0[HANDLE_SIGNALS] = Unset
    /\ environ[HANDLE_SIGNALS] = Unset /\ environ[THREADS] = Unset
    /\ environ[OPTLEVEL] = Unset

\* C11: for air_to_vacuum and for vacuum_to_air alike, a scalar gives a scalar
\* and no array, and an array of n wavelengths gives one numpy array of length
\* n.  Checked under SpecShape.
C11_ShapeFollowsInput ==
    (last.op \in {"vacuum_to_air", "air_to_vacuum"} /\ last.raised = "none") =>
        LET w == last.supplied["wavelengths"]
        IN  /\ Len(last.ret) = 1
            /\ IF w.t = "array"
               THEN /\ last.ret[1].t = "ndarray"
                    /\ last.wrapped = 1
                    /\ views[last.ret[1].v].len = w.v
               ELSE /\ last.ret[1].t = "float"
                    /\ last.wrapped = 0

\* air_to_vacuum returned an array for an array of MaxLen wavelengths after
\* an earlier conversion had returned an empty array for an empty one
C11_ArrayInArrayOut ==
    /\ last.op = "air_to_vacuum"
    /\ last.raised = "none"
    /\ last.supplied["wavelengths"] = V("array", MaxLen)
    /\ last.ret[1].t = "ndarray"
    /\ views[last.ret[1].v].len = MaxLen
    /\ \E v \in 1..Len(views) : views[v].len = 0

\* C12: when synth succeeds it returns exactly three numpy arrays; the first
\* is over tmp_wls, the second over tmp_flux and the third over tmp_continuum,
\* in the order Korgjl.synth returned them; each is an array over the vector
\* itself, not over a copy, and has the vector's length, so the three arrays
\* have equal lengths whenever the three vectors do.  Checked under SpecTriple.
C12_ThreeViewsInOrder ==
    (last.op = "synth" /\ last.raised = "none") =>
        /\ Len(last.ret) = 3
        /\ last.wrapped = 3
        /\ \A i \in 1..3 : last.ret[i].t = "ndarray" /\ last.ret[i].v \in Live
        /\ LET arr == [i \in 1..3 |-> views[last.ret[i].v]]
               same(len) == len[1] = len[2] /\ len[2] = len[3]
           IN  /\ arr[2].vec = arr[1].vec + 1
               /\ arr[3].vec = arr[1].vec + 2
               /\ \A i \in 1..3 :
                     /\ arr[i].base = V("handle", arr[i].vec)
                     /\ arr[i].len = vectors[arr[i].vec].len
               /\ same([i \in 1..3 |-> vectors[arr[i].vec].len])
                     => same([i \in 1..3 |-> arr[i].len])

\* synth succeeded over vectors of lengths 0, 1 and MaxLen, and the arrays it
\* returned have those lengths in that order
C12_DistinctLengthsInOrder ==
    /\ last.op = "synth"
    /\ last.raised = "none"
    /\ Len(last.ret) = 3
    /\ views[last.ret[1].v].len = 0
    /\ views[last.ret[2].v].len = 1
    /\ views[last.ret[3].v].len = MaxLen

\* four spaces, the function's name and an opening parenthesis
SignaturePrefix(f) == <<SP, SP, SP, SP, f, "(">>

\* the text after the first line, leading whitespace removed
AfterFirstLine(text) ==
    LStrip(SubSeq(text, Index(text, NL) + 1, Len(text)))

\* C13: the one error korg.py raises by itself comes while it is imported: for
\* each function whose docstring is taken from Korg, a Korg docstring that
\* does not begin with four spaces, the function's name and "(" makes the
\* import fail with RuntimeError and leaves __doc__ as it was; any other
\* docstring raises nothing and __doc__ becomes its text after the first
\* line, leading whitespace removed.  Checked under SpecLoad.
C13_RuntimeErrorOrDocstring ==
    /\ load_error \in {"none", "RuntimeError"}
    /\ status = "failed" =>
          \E g \in DocFns : /\ ~StartsWith(korg_docs[g], SignaturePrefix(g))
                            /\ docs[g] = OwnDoc
    /\ \A f \in DocFns :
          IF StartsWith(korg_docs[f], SignaturePrefix(f))
          THEN /\ docs[f] # OwnDoc => docs[f] = AfterFirstLine(korg_docs[f])
               /\ status = "loaded" => docs[f] # OwnDoc
          ELSE /\ docs[f] = OwnDoc
               /\ status # "loaded"

\* what the caller's own argument n looks like once forwarded
FromThisCall(n) ==
    IF n = "linelist" THEN V("VectorValue", last.supplied[n].v)
    ELSE IF n = "wavelengths" /\ last.supplied[n].t # "tuple"
    THEN V("jl.Vector", last.supplied[n].v)
    ELSE last.supplied[n]

\* C14: nothing is carried from one call of fit_spectrum, synth or
\* read_linelist to the next: the dict that is the default of fit_spectrum's
\* fixed_params stays empty, and every argument a call forwards is either an
\* argument of that same call or the default its signature was defined with.
\* Checked under Spec.
C14_NoCarryOver ==
    /\ fixed_params_default = V("dict", 0)
    /\ last.op \in {"fit_spectrum", "synth", "read_linelist"} =>
          \A n \in Forwarded :
              IF n \in Given
              THEN KwVal(n) = FromThisCall(n)
              ELSE n \in Optional(last.op) /\ KwVal(n) = Signature(last.op)[n]
    /\ last.op = "fit_spectrum" =>
          last.pos[6] = IF "fixed_params" \in Given THEN last.supplied["fixed_params"]
                        ELSE V("dict", 0)

\* fit_spectrum was called without fixed_params, after earlier calls had made
\* a Linelist and returned arrays, and the empty dict was forwarded
C14_DefaultAfterEarlierCalls ==
    /\ last.op = "fit_spectrum"
    /\ last.ncalls = 1
    /\ "fixed_params" \notin Given
    /\ last.pos[6] = V("dict", 0)
    /\ n_linelists >= 1
    /\ Len(views) >= 3

SegfaultWarned == \E w \in warnings : w.kind = "handle_signals_segfault"

\* C15: when juliacall was not imported before korg, the warning about
\* segfaults is given exactly when PYTHON_JULIACALL_HANDLE_SIGNALS was set to
\* something other than "yes" or the empty string; unset, "yes" and "" give no
\* such warning.  Checked under SpecLoad.
C15_SegfaultWarningCondition ==
    jl_owner # "user" =>
        LET harmless == environ0[HANDLE_SIGNALS] \in {Unset, "yes", ""}
        IN  /\ SegfaultWarned => ~harmless
            /\ (jl_owner = "korg" /\ ~harmless) => SegfaultWarned

\* C16: if PYKORG_AUTOLOAD_EXTENSIONS was set when korg was loaded, juliacall
\* is imported and initialised with
\* PYTHON_JULIACALL_AUTOLOAD_IPYTHON_EXTENSION holding that value; if it was
\* unset, korg leaves PYTHON_JULIACALL_AUTOLOAD_IPYTHON_EXTENSION as it was.
\* Checked under SpecLoad.
C16_AutoloadSetBeforeJuliacall ==
    /\ (jl_owner = "korg" /\ environ0[PYKORG_AUTOLOAD] # Unset) =>
          jl_environ[AUTOLOAD_IPYTHON] = environ0[PYKORG_AUTOLOAD]
    /\ environ0[PYKORG_AUTOLOAD] = Unset =>
          environ[AUTOLOAD_IPYTHON] = environ0[AUTOLOAD_IPYTHON]

====
